---- MODULE Spec2Model ----
(***************************************************************************)
(* PCInfoCollector: a one-shot "collect -> aggregate -> render -> write"   *)
(* pipeline (main.py, info_collector.py).                                  *)
(*                                                                         *)
(* The host (os, platform, psutil, subprocess, the file system, the wall   *)
(* clock and stdout) is the environment: each query returns a value drawn  *)
(* from a small set or raises.  A Python exception that no handler catches *)
(* ends the run: pc = "failed" and error names the place and the type.     *)
(* An optional value (psutil's ad_value None, a failed os call) is the     *)
(* empty sequence None; a present value v is Some(v) = <<v>>.              *)
(***************************************************************************)
EXTENDS Integers, Sequences, FiniteSets, TLC

VARIABLES
    pc,                \* position in main() / in the collector under study
    error,             \* the uncaught exception: [at |-> place, type |-> name]
    now,               \* real time, in ticks since the start of the scenario
    utcoff,            \* offset of the local wall clock, in seconds
    logical_cores,     \* psutil.cpu_count(logical=True) of the host
    cpu_table,         \* collect_top_processes: what the cpu enumeration yielded
    memory_table,      \* collect_top_processes: what the memory enumeration yielded
    info,              \* collect_top_processes: the dict being filled
    log_output,        \* analyze_logs: the journal's lines
    env_host,          \* what the host answered collect_environment_info
    hw_host,           \* what the host answered collect_hardware_info
    general_info,      \* main(): the five collected records
    environment_info,
    hardware_info,
    processes_info,
    logs_info,
    all_data,          \* main(): the aggregate document
    doc_in,            \* the document as it was handed to the renderer
    report_html,       \* main(): the rendered report, a sequence of tokens
    files,             \* the working directory: file name -> content
    filename,          \* save_report: the name computed for this write
    stdout,            \* the lines printed so far
    written,           \* every save_report that opened its file, in order
    run                \* number of the current run

vars == << pc, error, now, utcoff, logical_cores, cpu_table, memory_table, info, log_output,
           env_host, hw_host,
           general_info, environment_info, hardware_info, processes_info,
           logs_info, all_data, doc_in, report_html, files, filename,
           stdout, written, run >>

(***************************************************************************)
(* Optional values, exceptions, dicts.                                     *)
(***************************************************************************)
None == << >>

Some(v) == << v >>

IsNone(x) == x = None

Val(x) == x[1]

NoError == [at |-> "", type |-> ""]

\* A dict is a function from its keys; d[k] on a missing key is a KeyError.
HasKeys(d, keys) == keys \subseteq DOMAIN d

\* dict.get(key, default): the default applies only when the key is absent.
\* A key that is present with the value None yields None.
DictGet(d, key, default) == IF key \in DOMAIN d THEN d[key] ELSE default

Range(s) == { s[i] : i \in DOMAIN s }

SeqsUpTo(S, n) == UNION { [1..k -> S] : k \in 0..n }

Min(a, b) == IF a <= b THEN a ELSE b

(***************************************************************************)
(* The wall clock and strftime.                                            *)
(***************************************************************************)
TicksPerSec == 2

\* Local wall-clock start of the scenario: 2026-12-31 23:59:58.
BaseEpoch == 20819 * 86400 - 2

\* The real second a tick falls in.
EpochSecond(t) == BaseEpoch + (t \div TicksPerSec)

\* datetime.now(): the naive local time, whole seconds.
LocalSecond(t, off) == EpochSecond(t) + off

\* Gregorian date of a day number (days since 1970-01-01).
CivilFromDays(z0) ==
    LET z   == z0 + 719468
        era == z \div 146097
        doe == z - era * 146097
        yoe == (doe - doe \div 1460 + doe \div 36524 - doe \div 146096) \div 365
        doy == doe - (365 * yoe + yoe \div 4 - yoe \div 100)
        mp  == (5 * doy + 2) \div 153
        d   == doy - (153 * mp + 2) \div 5 + 1
        m   == IF mp < 10 THEN mp + 3 ELSE mp - 9
        y   == yoe + era * 400 + (IF m <= 2 THEN 1 ELSE 0)
    IN  [year |-> y, month |-> m, day |-> d]

Digit(n) == CASE n = 0 -> "0" [] n = 1 -> "1" [] n = 2 -> "2" [] n = 3 -> "3"
              [] n = 4 -> "4" [] n = 5 -> "5" [] n = 6 -> "6" [] n = 7 -> "7"
              [] n = 8 -> "8" [] n = 9 -> "9"

\* %m, %d, %H, %M, %S: two digits, zero padded.
Pad2(n) == << Digit((n \div 10) % 10), Digit(n % 10) >>

\* %Y: four digits.
Pad4(n) == << Digit((n \div 1000) % 10), Digit((n \div 100) % 10) >> \o Pad2(n % 100)

\* strftime("%Y-%m-%d %H<sep>%M<sep>%S") of a local time, as its characters.
Strftime(sec, sep) ==
    LET c   == CivilFromDays(sec \div 86400)
        sod == sec % 86400
    IN  Pad4(c.year) \o <<"-">> \o Pad2(c.month) \o <<"-">> \o Pad2(c.day)
        \o <<" ">> \o Pad2(sod \div 3600) \o <<sep>> \o Pad2((sod % 3600) \div 60)
        \o <<sep>> \o Pad2(sod % 60)

\* A mis-formatted name that leaves the seconds out.
ReportFilenameNoSeconds(sec) ==
    SubSeq(Strftime(sec, "_"), 1, 16) \o <<".html">>

\* save_report: datetime.now().strftime("%Y-%m-%d %H_%M_%S") + ".html"
ReportFilename(sec) == Strftime(sec, "_") \o <<".html">>

\* Code point order of the characters a file name is made of.
Ord(c) == CASE c = " " -> 32 [] c = "-" -> 45 [] c = ".html" -> 46
            [] c = "0" -> 48 [] c = "1" -> 49 [] c = "2" -> 50 [] c = "3" -> 51
            [] c = "4" -> 52 [] c = "5" -> 53 [] c = "6" -> 54 [] c = "7" -> 55
            [] c = "8" -> 56 [] c = "9" -> 57 [] c = ":" -> 58 [] c = "_" -> 95

\* Lexicographic (string) order.
LexLess(a, b) ==
    \E i \in 1..(Min(Len(a), Len(b)) + 1) :
        /\ \A j \in 1..(i - 1) : a[j] = b[j]
        /\ \/ i = Len(a) + 1 /\ i <= Len(b)
           \/ i <= Len(a) /\ i <= Len(b) /\ Ord(a[i]) < Ord(b[i])

(***************************************************************************)
(* Texts.  A text value is the sequence of its pieces, so that formatting  *)
(* (an f-string, a suffix) is concatenation.                               *)
(***************************************************************************)
Text(s) == << s >>

Unknown == Text("Unknown")

NoneText == Text("None")

\* str.strip() of a utility's output: the trailing newline goes, and an
\* output that is only white space becomes the empty text.
Strip(out) == SelectSeq(out, LAMBDA piece : piece # "\n")

\* subprocess.check_output(cmd, shell=True, text=True): the utility's
\* output, or CalledProcessError when the exit status is not zero.
CheckOutput(u) == IF u.rc = 0 THEN [exc |-> "", val |-> u.out]
                  ELSE [exc |-> "CalledProcessError", val |-> << >>]

\* What a call gives: its value, or the exception it raises.
Returns(v) == [exc |-> "", val |-> v]

Raises(e) == [exc |-> e, val |-> << >>]

(***************************************************************************)
(* collect_general_info                                                    *)
(***************************************************************************)
\* os.getlogin() fails with OSError when the process has no controlling
\* terminal; os.geteuid does not exist on every platform (AttributeError).
GeneralHosts ==
    [ login : {Some("alice"), None},
      euid  : {Some(0), Some(1000), None} ]

GeneralKeys == {"date_time", "pc_name", "user_name", "sudo", "os", "kernel", "uptime"}

CollectGeneralInfo(host, t, off) ==
    IF IsNone(host.login) THEN Raises("OSError")
    ELSE IF IsNone(host.euid) THEN Raises("AttributeError")
    ELSE Returns(
        [ date_time |-> Strftime(LocalSecond(t, off), ":"),
          pc_name   |-> Text("host"),
          user_name |-> Text(Val(host.login)),
          sudo      |-> IF Val(host.euid) = 0 THEN Text("Yes") ELSE Text("No"),
          os        |-> Text("Linux"),
          kernel    |-> Text("6.1.0"),
          uptime    |-> 3600 + (t \div TicksPerSec) ])

(***************************************************************************)
(* collect_environment_info                                                *)
(***************************************************************************)
\* "xrandr | grep '*' | awk '{print $1}'": the status is that of the last
\* command of the pipeline, so a missing or failing xrandr gives status 0
\* and no output; the status is not zero when the pipeline itself fails.
XrandrOutcomes ==
    { [rc |-> 0,   out |-> <<"1920x1080", "\n">>],
      [rc |-> 0,   out |-> << >>],
      [rc |-> 0,   out |-> <<"\n">>],
      [rc |-> 127, out |-> << >>] }

EnvHosts ==
    [ desktop : {Some("GNOME"), None},
      xrandr  : XrandrOutcomes,
      shell   : {Some("/bin/bash"), None} ]

EnvironmentKeys == {"desktop_env", "resolution", "shell"}

\* os.environ.get(name, "Unknown")
EnvironGet(v) == IF IsNone(v) THEN Unknown ELSE Text(Val(v))

\* The resolution with the emptiness test left out.
ResolutionNoFallback(u) ==
    LET r == CheckOutput(u)
    IN  IF r.exc = "CalledProcessError" THEN Unknown ELSE Strip(r.val)

\* lines 30-36: try / check_output / strip / "Unknown" when empty or failed.
Resolution(u) ==
    LET r == CheckOutput(u)
    IN  IF r.exc = "CalledProcessError" THEN Unknown
        ELSE IF Strip(r.val) # << >> THEN Strip(r.val) ELSE Unknown

CollectEnvironmentInfo(host) ==
    Returns(
        [ desktop_env |-> EnvironGet(host.desktop),
          resolution  |-> Resolution(host.xrandr),
          shell       |-> EnvironGet(host.shell) ])

(***************************************************************************)
(* collect_hardware_info                                                   *)
(***************************************************************************)
RECURSIVE DecStr(_)
\* str(n) of a natural number: its decimal digits.
DecStr(n) == IF n < 10 THEN << Digit(n) >> ELSE DecStr(n \div 10) \o << Digit(n % 10) >>

\* str() of a number of hundredths: "2.0", "5.33", "16.25"
HundredthsStr(h) ==
    DecStr(h \div 100) \o <<".">> \o
    (IF h % 10 = 0 THEN DecStr((h % 100) \div 10) ELSE Pad2(h % 100))

\* 1024 ** 3 bytes; sizes are counted in units of 2^20 bytes.
GiB == 1024

\* round(x, 2) of the quotient n / d, in hundredths (ties go to even).
RoundHundredths(n, d) ==
    LET q == (100 * n) \div d
        r == (100 * n) % d
    IN  IF 2 * r < d THEN q
        ELSE IF 2 * r > d THEN q + 1
        ELSE IF q % 2 = 0 THEN q ELSE q + 1

\* f"{round(bytes / (1024 ** 3), 2)} GB"
GB(bytes) == HundredthsStr(RoundHundredths(bytes, GiB)) \o <<" GB">>

\* A mounted partition and what psutil.disk_usage(mountpoint) gives for it
\* (None: the mount point cannot be read, PermissionError).
Partitions ==
    { [device |-> "/dev/sda1", mountpoint |-> "/",    fstype |-> "ext4", free |-> Some(2 * GiB)],
      [device |-> "/dev/sdb1", mountpoint |-> "/mnt", fstype |-> "vfat", free |-> None] }

\* "lspci | grep -i vga": grep's status is 1 when no line matches.
LspciOutcomes ==
    { [rc |-> 0, out |-> <<"00:02.0 VGA compatible controller", "\n">>],
      [rc |-> 0, out |-> << >>],
      [rc |-> 1, out |-> << >>] }

HardwareHosts(maxDisks) ==
    [ freq       : {Some("3400.00"), None},
      partitions : SeqsUpTo(Partitions, maxDisks),
      lspci      : LspciOutcomes ]

HardwareKeys == {"cpu", "ram", "disks", "gpu"}

CpuKeys == {"name", "frequency", "cores", "threads"}

RamKeys == {"total", "used", "swap_total", "swap_used"}

DiskKeys == {"device", "mountpoint", "fstype", "free_space"}

\* line 49: f"{psutil.cpu_freq().max:.2f} MHz" if psutil.cpu_freq() else "Unknown"
Frequency(freq) == IF IsNone(freq) THEN Unknown ELSE << Val(freq), " MHz" >>

\* lines 73-77
Gpu(u) ==
    LET r == CheckOutput(u)
    IN  IF r.exc = "CalledProcessError" THEN NoneText
        ELSE IF Strip(r.val) # << >> THEN Strip(r.val) ELSE NoneText

CollectHardwareInfo(host, cores) ==
    IF \E i \in DOMAIN host.partitions : IsNone(host.partitions[i].free)
    THEN Raises("PermissionError")
    ELSE Returns(
        [ cpu   |-> [ name      |-> Text("x86_64"),
                      frequency |-> Frequency(host.freq),
                      cores     |-> cores,
                      threads   |-> cores ],
          ram   |-> [ total      |-> GB(16 * GiB),
                      used       |-> GB(5 * GiB + GiB \div 3),
                      swap_total |-> GB(2 * GiB),
                      swap_used  |-> GB(0) ],
          disks |-> [ i \in DOMAIN host.partitions |->
                        [ device     |-> Text(host.partitions[i].device),
                          mountpoint |-> Text(host.partitions[i].mountpoint),
                          fstype     |-> Text(host.partitions[i].fstype),
                          free_space |-> GB(Val(host.partitions[i].free)) ] ],
          gpu   |-> Gpu(host.lspci) ])

(***************************************************************************)
(* collect_top_processes                                                   *)
(*                                                                         *)
(* psutil.process_iter(attrs) yields the live processes in pid order, each *)
(* with p.info holding EVERY requested key: a process that is gone is not  *)
(* yielded at all, and a metric that cannot be read (AccessDenied,         *)
(* ZombieProcess) is present with the value None.  A table is what one     *)
(* enumeration yields; the three enumerations see tables of their own.     *)
(***************************************************************************)
CpuSliceStart == 1

CpuSliceStop == 6

MemSliceStop == 5

\* cpu percent readings (100 = one core fully used) and None.
CpuPercents == {Some(0), Some(50), Some(150), None}

\* memory percent readings in thousandths of a percent (100000 = 100 %).
MemoryPercents == {Some(1234), Some(1235), Some(100000), None}

\* What the call proc.cpu_percent(interval=None) of the priming pass does.
PrimeOutcomes == {"ok", "NoSuchProcess", "AccessDenied", "ZombieProcess"}

CoreCounts == {1, 2, 4}

ProcName(i) == IF i % 2 = 1 THEN Text("init") ELSE Text("bash")

\* The tables process_iter(['pid', 'name', 'cpu_percent']) may yield.
CpuTables(percents, maxProcs) ==
    UNION { { [i \in 1..k |-> [pid |-> i, name |-> ProcName(i), cpu_percent |-> f[i]]] :
                f \in [1..k -> percents] } : k \in 0..maxProcs }

\* The tables process_iter(['pid', 'name', 'memory_percent']) may yield.
MemoryTables(percents, maxProcs) ==
    UNION { { [i \in 1..k |-> [pid |-> i, name |-> ProcName(i), memory_percent |-> f[i]]] :
                f \in [1..k -> percents] } : k \in 0..maxProcs }

\* lines 88-92: the exceptions the priming pass swallows.
PrimeCaught == {"NoSuchProcess", "AccessDenied", "ZombieProcess"}

PrimingPass(outcomes) ==
    IF \E i \in DOMAIN outcomes : outcomes[i] # "ok" /\ outcomes[i] \notin PrimeCaught
    THEN Raises(CHOOSE e \in Range(outcomes) : e # "ok" /\ e \notin PrimeCaught)
    ELSE Returns(<< >>)

\* sorted() compares keys with <: any comparison that involves None is a
\* TypeError, and every element of a list of two or more is compared.
SortRaises(keys) == Len(keys) >= 2 /\ \E i \in DOMAIN keys : IsNone(keys[i])

\* Insert x behind every element whose key is at least x's.
InsertDesc(s, x, key) ==
    LET ahead == { i \in DOMAIN s : Val(s[i][key]) >= Val(x[key]) }
        n     == IF ahead = {} THEN 0 ELSE CHOOSE i \in ahead : \A j \in ahead : j <= i
    IN  SubSeq(s, 1, n) \o << x >> \o SubSeq(s, n + 1, Len(s))

RECURSIVE SortDesc(_, _)
\* sorted(table, key=..., reverse=True): descending and stable, entries with
\* equal keys keep the order of the enumeration.
SortDesc(table, key) ==
    IF Len(table) <= 1 THEN table
    ELSE InsertDesc(SortDesc(SubSeq(table, 1, Len(table) - 1), key),
                    table[Len(table)], key)

\* list[start:stop] for 0 <= start <= stop.
Slice(s, start, stop) == SubSeq(s, start + 1, Min(stop, Len(s)))

RECURSIVE GCD(_, _)
GCD(a, b) == IF b = 0 THEN a ELSE GCD(b, a % b)

\* The quotient a / b as a fraction in lowest terms.
Quotient(a, b) == LET g == GCD(a, b) IN [num |-> a \div g, den |-> b \div g]

\* line 104: p.info.get('cpu_percent', 0) / logical_cores
NormalizeCpu(percent, cores) == Quotient(percent, cores)

\* The slice that keeps the highest entry.
TopCpuSliceKeepsFirst(sorted) == Slice(sorted, 0, CpuSliceStop - 1)

\* line 98: [1:6]
TopCpuSlice(sorted) == Slice(sorted, CpuSliceStart, CpuSliceStop)

\* The slice one entry too long.
TopMemorySliceLong(sorted) == Slice(sorted, 0, MemSliceStop + 1)

\* line 113: [:5]
TopMemorySlice(sorted) == Slice(sorted, 0, MemSliceStop)

\* lines 94-107: the cpu ranking of one enumeration.
RankCpu(table, cores) ==
    LET keyed == [i \in DOMAIN table |->
                    [p   |-> table[i],
                     key |-> DictGet(table[i], "cpu_percent", Some(0))]]
        keys  == [i \in DOMAIN table |-> keyed[i].key]
        top   == TopCpuSlice(SortDesc(keyed, "key"))
    IN  IF SortRaises(keys) THEN Raises("TypeError")
        ELSE IF \E i \in DOMAIN top : IsNone(top[i].key) THEN Raises("TypeError")
        ELSE Returns(
            [i \in DOMAIN top |->
                [ pid  |-> DictGet(top[i].p, "pid", None),
                  name |-> DictGet(top[i].p, "name", Unknown),
                  cpu  |-> NormalizeCpu(Val(top[i].key), cores) ]])

\* round(x, 2) of a percent given in thousandths, in hundredths.
Round2(m) == RoundHundredths(m, 1000)

\* lines 109-122: the memory ranking of one enumeration.
RankMemory(table) ==
    LET keyed == [i \in DOMAIN table |->
                    [p   |-> table[i],
                     key |-> DictGet(table[i], "memory_percent", Some(0))]]
        keys  == [i \in DOMAIN table |-> keyed[i].key]
        top   == TopMemorySlice(SortDesc(keyed, "key"))
    IN  IF SortRaises(keys) THEN Raises("TypeError")
        ELSE IF \E i \in DOMAIN top : IsNone(top[i].key) THEN Raises("TypeError")
        ELSE Returns(
            [i \in DOMAIN top |->
                [ pid    |-> DictGet(top[i].p, "pid", None),
                  name   |-> DictGet(top[i].p, "name", Unknown),
                  memory |-> Round2(Val(top[i].key)) ]])

\* lines 81-124: the three enumerations, one after the other.
CollectTopProcesses(outcomes, cpuTable, memoryTable, cores) ==
    LET prime  == PrimingPass(outcomes)
        cpu    == RankCpu(cpuTable, cores)
        memory == RankMemory(memoryTable)
    IN  IF prime.exc # "" THEN Raises(prime.exc)
        ELSE IF cpu.exc # "" THEN Raises(cpu.exc)
        ELSE IF memory.exc # "" THEN Raises(memory.exc)
        ELSE Returns([cpu |-> cpu.val, memory |-> memory.val])

ProcessesKeys == {"cpu", "memory"}

CpuEntryKeys == {"pid", "name", "cpu"}

MemoryEntryKeys == {"pid", "name", "memory"}

(***************************************************************************)
(* analyze_logs                                                            *)
(*                                                                         *)
(* A journal line is the sequence of its words; "marker in line" holds     *)
(* when the marker is one of them, and str.lower() lowers every word.      *)
(***************************************************************************)
Lower(w) == CASE w = "Systemd" -> "systemd"
              [] w = "Started" -> "started"
              [] w = "WARNING" -> "warning"
              [] w = "Error" -> "error"
              [] OTHER -> w

LowerLine(line) == [i \in DOMAIN line |-> Lower(line[i])]

In(marker, line) == \E i \in DOMAIN line : line[i] = marker

LogLines ==
    { <<"systemd", "Started", "unit">>,
      <<"systemd", "started", "unit">>,
      <<"Systemd", "Started", "Error">>,
      <<"kernel", "WARNING">>,
      <<"kernel", "warning", "error">>,
      <<"kernel", "Started">>,
      <<"kernel", "up">>,
      <<"systemd", "Started", "WARNING", "error">> }

\* "journalctl --no-pager -o short-iso": status and output lines.
JournalOutcomes(lines, maxLines) ==
    { [rc |-> 0, out |-> ls] : ls \in SeqsUpTo(lines, maxLines) }
      \cup { [rc |-> 1, out |-> << >>] }

\* line 134: "systemd" in log.lower() and "Started" in log
IsSuccess(log) == In("systemd", LowerLine(log)) /\ In("Started", log)

\* line 135: "warning" in log.lower()
IsWarning(log) == In("warning", LowerLine(log))

\* A classification that stops at the first bucket a line falls in.
IsErrorExclusive(log) == In("error", LowerLine(log)) /\ ~IsWarning(log)

\* line 136: "error" in log.lower()
IsError(log) == In("error", LowerLine(log))

RECURSIVE Sum(_)
\* sum(flags): True counts 1, False counts 0.
Sum(flags) ==
    IF flags = << >> THEN 0
    ELSE (IF Head(flags) THEN 1 ELSE 0) + Sum(Tail(flags))

LogsKeys == {"success", "warnings", "errors"}

\* An except branch that returns the dict as filled so far.
AnalyzeLogsPartial(u) ==
    LET r == CheckOutput(u)
    IN  IF r.exc = "CalledProcessError"
        THEN Returns(<< >>)
        ELSE Returns(
            [ success  |-> Sum([i \in DOMAIN r.val |-> IsSuccess(r.val[i])]),
              warnings |-> Sum([i \in DOMAIN r.val |-> IsWarning(r.val[i])]),
              errors   |-> Sum([i \in DOMAIN r.val |-> IsError(r.val[i])]) ])

\* lines 131-140
AnalyzeLogs(u) ==
    LET r == CheckOutput(u)
    IN  IF r.exc = "CalledProcessError"
        THEN Returns([success |-> 0, warnings |-> 0, errors |-> 0])
        ELSE Returns(
            [ success  |-> Sum([i \in DOMAIN r.val |-> IsSuccess(r.val[i])]),
              warnings |-> Sum([i \in DOMAIN r.val |-> IsWarning(r.val[i])]),
              errors   |-> Sum([i \in DOMAIN r.val |-> IsError(r.val[i])]) ])

(***************************************************************************)
(* generate_html_report                                                    *)
(*                                                                         *)
(* The report is the sequence of its tags and text pieces.  An f-string    *)
(* field {v} is str(v): a text as it is, a number as its digits.           *)
(***************************************************************************)
\* str() of a quotient: the fraction, "75/2", or the whole number.
QuotientStr(q) == IF q.den = 1 THEN DecStr(q.num) \o <<".0">>
                  ELSE DecStr(q.num) \o <<"/">> \o DecStr(q.den)

\* str(timedelta) of a number of seconds below a day: H:MM:SS
TimedeltaStr(sec) ==
    DecStr(sec \div 3600) \o <<":">> \o Pad2((sec % 3600) \div 60) \o <<":">> \o Pad2(sec % 60)

RECURSIVE Join(_)
\* "".join(fragments)
Join(fragments) == IF fragments = << >> THEN << >> ELSE Head(fragments) \o Join(Tail(fragments))

Td(text) == <<"<td>">> \o text \o <<"</td>">>

Th(label) == <<"<th>", label, "</th>">>

Tr(cells) == <<"<tr>">> \o Join(cells) \o <<"</tr>">>

Table(labels, rows) ==
    <<"<table>">> \o Tr([i \in DOMAIN labels |-> Th(labels[i])]) \o rows \o <<"</table>">>

\* lines 146, 151, 155: the row of one item
DiskRow(disk) == Tr(<< Td(disk.device), Td(disk.mountpoint), Td(disk.fstype), Td(disk.free_space) >>)

CpuRow(p) == Tr(<< Td(DecStr(p.pid)), Td(p.name), Td(QuotientStr(p.cpu) \o <<"%">>) >>)

MemoryRow(p) == Tr(<< Td(DecStr(p.pid)), Td(p.name), Td(HundredthsStr(p.memory) \o <<"%">>) >>)

\* lines 145-148: "".join(f"<tr>...</tr>" for disk in data['hardware']['disks'])
DisksHtml(disks) == Join([i \in DOMAIN disks |-> DiskRow(disks[i])])

\* The rows of the cpu table in the opposite order.
TopCpuHtmlReversed(procs) == Join([i \in DOMAIN procs |-> CpuRow(procs[Len(procs) + 1 - i])])

\* lines 150-153
TopCpuHtml(procs) == Join([i \in DOMAIN procs |-> CpuRow(procs[i])])

\* lines 154-157
TopMemoryHtml(procs) == Join([i \in DOMAIN procs |-> MemoryRow(procs[i])])

\* Every data[...][...] the template reads; a missing key is a KeyError.
DocumentComplete(data) ==
    /\ HasKeys(data, {"general", "environment", "hardware", "processes", "logs"})
    /\ HasKeys(data.general, GeneralKeys)
    /\ HasKeys(data.environment, EnvironmentKeys)
    /\ HasKeys(data.hardware, HardwareKeys)
    /\ HasKeys(data.hardware.cpu, CpuKeys)
    /\ HasKeys(data.hardware.ram, RamKeys)
    /\ \A i \in DOMAIN data.hardware.disks : HasKeys(data.hardware.disks[i], DiskKeys)
    /\ HasKeys(data.processes, ProcessesKeys)
    /\ \A i \in DOMAIN data.processes.cpu : HasKeys(data.processes.cpu[i], CpuEntryKeys)
    /\ \A i \in DOMAIN data.processes.memory : HasKeys(data.processes.memory[i], MemoryEntryKeys)
    /\ HasKeys(data.logs, LogsKeys)

PropertyRow(label, text) == Tr(<< Td(Text(label)), Td(text) >>)

\* lines 159-229: the template
Template(data, disks_html, top_cpu_html, top_memory_html) ==
    <<"<!DOCTYPE html>", "<html>", "<head>", "</head>", "<body>", "<h1>", "</h1>">>
    \o <<"<h2>", "</h2>">>
    \o Table(<<"property", "value">>,
             PropertyRow("date_time", data.general.date_time)
             \o PropertyRow("pc_name", data.general.pc_name)
             \o PropertyRow("user_name", data.general.user_name \o <<" (sudo: ">>
                                           \o data.general.sudo \o <<")">>)
             \o PropertyRow("os", data.general.os)
             \o PropertyRow("kernel", data.general.kernel)
             \o PropertyRow("uptime", TimedeltaStr(data.general.uptime)))
    \o <<"<h2>", "</h2>">>
    \o Table(<<"property", "value">>,
             PropertyRow("desktop_env", data.environment.desktop_env)
             \o PropertyRow("resolution", data.environment.resolution)
             \o PropertyRow("shell", data.environment.shell))
    \o <<"<h2>", "</h2>">>
    \o Table(<<"component", "value">>,
             PropertyRow("cpu", data.hardware.cpu.name \o <<" (">>
                                  \o data.hardware.cpu.frequency \o <<"), ">>
                                  \o DecStr(data.hardware.cpu.cores) \o <<" / ">>
                                  \o DecStr(data.hardware.cpu.threads))
             \o PropertyRow("ram", data.hardware.ram.total \o <<", ">>
                                  \o data.hardware.ram.used \o <<", ">>
                                  \o data.hardware.ram.swap_total \o <<" (">>
                                  \o data.hardware.ram.swap_used \o <<")">>)
             \o PropertyRow("gpu", data.hardware.gpu))
    \o <<"<h3>", "</h3>">>
    \o Table(<<"device", "mountpoint", "fstype", "free_space">>, disks_html)
    \o <<"<h2>", "</h2>", "<h3>", "</h3>">>
    \o Table(<<"pid", "name", "cpu">>, top_cpu_html)
    \o <<"<h3>", "</h3>">>
    \o Table(<<"pid", "name", "memory">>, top_memory_html)
    \o <<"<h2>", "</h2>">>
    \o Table(<<"category", "count">>,
             PropertyRow("success", DecStr(data.logs.success))
             \o PropertyRow("warnings", DecStr(data.logs.warnings))
             \o PropertyRow("errors", DecStr(data.logs.errors)))
    \o <<"</body>", "</html>">>

\* lines 142-231: the report, and the document as the call leaves it.
GenerateHtmlReport(data) ==
    IF ~DocumentComplete(data) THEN [exc |-> "KeyError", val |-> << >>, data |-> data]
    ELSE [ exc  |-> "",
           val  |-> Template(data,
                             DisksHtml(data.hardware.disks),
                             TopCpuHtml(data.processes.cpu),
                             TopMemoryHtml(data.processes.memory)),
           data |-> data ]

(***************************************************************************)
(* main(): the order of its statements.  collect_top_processes is one      *)
(* step; save_report is two (open, then write and close).                  *)
(***************************************************************************)
\* main() with the confirmation printed before the report is saved.
MainOrderPrintFirst ==
    << "general", "environment", "hardware", "processes", "logs", "aggregate",
       "render", "print", "save_open", "save_write", "done" >>

\* main.py lines 4-22
MainOrder ==
    << "general", "environment", "hardware", "processes", "logs", "aggregate",
       "render", "save_open", "save_write", "print", "done" >>

NextPc(p) == MainOrder[(CHOOSE i \in DOMAIN MainOrder : MainOrder[i] = p) + 1]

clockVars == << now, utcoff >>

procVars == << logical_cores, cpu_table, memory_table, info >>

hostVars == << env_host, hw_host >>

mainVars == << general_info, environment_info, hardware_info, processes_info, logs_info >>

docVars == << all_data, doc_in, report_html >>

ioVars == << files, filename, stdout, written, run >>

\* An exception nothing catches: the run ends there.
Fail(at, type) == pc' = "failed" /\ error' = [at |-> at, type |-> type]

Step == pc' = NextPc(pc) /\ UNCHANGED error

(***************************************************************************)
(* Bounds.                                                                 *)
(***************************************************************************)
\* Length of the host's lists (partitions, process tables, journal) in the
\* specification of the whole pipeline.
MainMax == 1

\* Processes in a table given to one ranking.
MaxProcs == 7

\* Lines of a journal given to analyze_logs.
MaxLines == 3

\* Items per list of a document given to the renderer.
MaxItems == 2

\* Runs, and ticks of real time, in the specification of successive runs.
MaxRuns == 2

MaxTicks == 6

\* The readings and lines the pipeline specification draws from.
MainCpuPercents == {Some(50), None}

MainMemoryPercents == {Some(1235), None}

MainLogLines == { <<"systemd", "Started", "unit">>, <<"kernel", "warning", "error">> }

(***************************************************************************)
(* The steps of main().                                                    *)
(***************************************************************************)
General ==
    /\ pc = "general"
    /\ \E host \in GeneralHosts :
        LET r == CollectGeneralInfo(host, now, utcoff)
        IN  IF r.exc # ""
            THEN Fail("general", r.exc) /\ UNCHANGED general_info
            ELSE Step /\ general_info' = r.val
    /\ UNCHANGED << clockVars, procVars, hostVars, log_output, environment_info, hardware_info,
                    processes_info, logs_info, docVars, ioVars >>

Environment ==
    /\ pc = "environment"
    /\ \E host \in EnvHosts :
        LET r == CollectEnvironmentInfo(host)
        IN  /\ env_host' = host
            /\ IF r.exc # ""
               THEN Fail("environment", r.exc) /\ UNCHANGED environment_info
               ELSE Step /\ environment_info' = r.val
    /\ UNCHANGED << clockVars, procVars, hw_host, log_output, general_info, hardware_info,
                    processes_info, logs_info, docVars, ioVars >>

Hardware ==
    /\ pc = "hardware"
    /\ \E host \in HardwareHosts(MainMax) :
        LET r == CollectHardwareInfo(host, logical_cores)
        IN  /\ hw_host' = host
            /\ IF r.exc # ""
               THEN Fail("hardware", r.exc) /\ UNCHANGED hardware_info
               ELSE Step /\ hardware_info' = r.val
    /\ UNCHANGED << clockVars, procVars, env_host, log_output, general_info, environment_info,
                    processes_info, logs_info, docVars, ioVars >>

Processes ==
    /\ pc = "processes"
    /\ \E outcomes \in SeqsUpTo(PrimeOutcomes, MainMax),
          cpuTable \in CpuTables(MainCpuPercents, MainMax),
          memoryTable \in MemoryTables(MainMemoryPercents, MainMax) :
        LET r == CollectTopProcesses(outcomes, cpuTable, memoryTable, logical_cores)
        IN  IF r.exc # ""
            THEN Fail("processes", r.exc) /\ UNCHANGED processes_info
            ELSE Step /\ processes_info' = r.val
    /\ UNCHANGED << clockVars, procVars, hostVars, log_output, general_info, environment_info,
                    hardware_info, logs_info, docVars, ioVars >>

Logs ==
    /\ pc = "logs"
    /\ \E u \in JournalOutcomes(MainLogLines, MainMax) :
        LET r == AnalyzeLogs(u)
        IN  /\ log_output' = u
            /\ IF r.exc # ""
               THEN Fail("logs", r.exc) /\ UNCHANGED logs_info
               ELSE Step /\ logs_info' = r.val
    /\ UNCHANGED << clockVars, procVars, hostVars, general_info, environment_info,
                    hardware_info, processes_info, docVars, ioVars >>

\* main.py lines 10-16
Aggregate ==
    /\ pc = "aggregate"
    /\ all_data' = [ general     |-> general_info,
                     environment |-> environment_info,
                     hardware    |-> hardware_info,
                     processes   |-> processes_info,
                     logs        |-> logs_info ]
    /\ doc_in' = all_data'
    /\ Step
    /\ UNCHANGED << clockVars, procVars, hostVars, log_output, mainVars, report_html, ioVars >>

\* main.py line 18
Render ==
    /\ pc = "render"
    /\ LET r == GenerateHtmlReport(all_data)
       IN  /\ all_data' = r.data
           /\ IF r.exc # ""
              THEN Fail("render", r.exc) /\ UNCHANGED report_html
              ELSE Step /\ report_html' = r.val
    /\ UNCHANGED << clockVars, procVars, hostVars, log_output, mainVars, doc_in, ioVars >>

\* save_report, lines 236-237: the name from the local time, then open(name, 'w'),
\* which creates the file or empties the one of that name, or fails.
SaveOpen ==
    /\ pc = "save_open"
    /\ LET name == ReportFilename(LocalSecond(now, utcoff))
       IN  /\ filename' = name
           /\ \E opened \in BOOLEAN :
                IF opened
                THEN /\ files' = (name :> << >>) @@ files
                     /\ written' = Append(written, [name |-> name, at |-> now,
                                                    off |-> utcoff, run |-> run])
                     /\ Step
                ELSE /\ Fail("save_report", "PermissionError")
                     /\ UNCHANGED << files, written >>
    /\ UNCHANGED << clockVars, procVars, hostVars, log_output, mainVars, docVars, stdout, run >>

\* save_report, line 238: file.write(html) and the close that ends the with block;
\* a write that fails (disk full) leaves the file with part of the report.
SaveWrite ==
    /\ pc = "save_write"
    /\ \E stored \in BOOLEAN :
        IF stored
        THEN /\ files' = [files EXCEPT ![filename] = report_html]
             /\ Step
        ELSE /\ files' = [files EXCEPT ![filename] = SubSeq(report_html, 1, Len(report_html) \div 2)]
             /\ Fail("save_report", "OSError")
    /\ UNCHANGED << clockVars, procVars, hostVars, log_output, mainVars, docVars, filename,
                    stdout, written, run >>

\* main.py line 22: print(...), which fails when stdout cannot take the line.
PrintLine ==
    /\ pc = "print"
    /\ \E printed \in BOOLEAN :
        IF printed
        THEN stdout' = Append(stdout, "saved") /\ Step
        ELSE Fail("print", "OSError") /\ UNCHANGED stdout
    /\ UNCHANGED << clockVars, procVars, hostVars, log_output, mainVars, docVars, files,
                    filename, written, run >>

ClockInit == now = 0 /\ utcoff = 0

ProcInit == cpu_table = << >> /\ memory_table = << >> /\ info = << >>

HostInit == env_host = << >> /\ hw_host = << >>

LocalsInit ==
    /\ general_info = << >> /\ environment_info = << >> /\ hardware_info = << >>
    /\ processes_info = << >> /\ logs_info = << >> /\ log_output = << >>

DocInit == all_data = << >> /\ doc_in = << >> /\ report_html = << >>

IoInit == files = << >> /\ filename = << >> /\ stdout = << >> /\ written = << >> /\ run = 1

\* One run of the program in an empty working directory.
Init ==
    /\ pc = "general" /\ error = NoError
    /\ logical_cores \in CoreCounts
    /\ ClockInit /\ ProcInit /\ HostInit /\ LocalsInit /\ DocInit /\ IoInit

Next ==
    \/ General \/ Environment \/ Hardware \/ Processes \/ Logs
    \/ Aggregate \/ Render \/ SaveOpen \/ SaveWrite \/ PrintLine

Spec == Init /\ [][Next]_vars

(***************************************************************************)
(* Properties of the whole run (specification Spec).                       *)
(***************************************************************************)
Sets(d) == DOMAIN d # {}

UtilityFailed(u) == u.rc # 0 \/ Strip(u.out) = << >>

NoCounts == [success |-> 0, warnings |-> 0, errors |-> 0]

\* C1: once main() has built the aggregate document, it has exactly its five
\* top-level fields and every nested field of every record and list entry,
\* whatever queries failed; a query that failed shows as its sentinel
\* ("Unknown", "None", zero counts), never as a missing field.
C1_EveryFieldPresent ==
    Sets(all_data) =>
        /\ DOMAIN all_data = {"general", "environment", "hardware", "processes", "logs"}
        /\ DOMAIN all_data.general = GeneralKeys
        /\ DOMAIN all_data.environment = EnvironmentKeys
        /\ DOMAIN all_data.hardware = HardwareKeys
        /\ DOMAIN all_data.hardware.cpu = CpuKeys
        /\ DOMAIN all_data.hardware.ram = RamKeys
        /\ \A i \in DOMAIN all_data.hardware.disks :
                DOMAIN all_data.hardware.disks[i] = DiskKeys
        /\ DOMAIN all_data.processes = ProcessesKeys
        /\ \A i \in DOMAIN all_data.processes.cpu :
                DOMAIN all_data.processes.cpu[i] = CpuEntryKeys
        /\ \A i \in DOMAIN all_data.processes.memory :
                DOMAIN all_data.processes.memory[i] = MemoryEntryKeys
        /\ DOMAIN all_data.logs = LogsKeys
        /\ IsNone(env_host.desktop) => all_data.environment.desktop_env = Unknown
        /\ UtilityFailed(env_host.xrandr) => all_data.environment.resolution = Unknown
        /\ IsNone(env_host.shell) => all_data.environment.shell = Unknown
        /\ IsNone(hw_host.freq) => all_data.hardware.cpu.frequency = Unknown
        /\ UtilityFailed(hw_host.lspci) => all_data.hardware.gpu = NoneText
        /\ log_output.rc # 0 => all_data.logs = NoCounts

\* A run that reached the renderer with the display, PCI and log utilities
\* all failing and a process in the memory ranking.
C1_Witness ==
    /\ pc = "save_open"
    /\ env_host.xrandr.rc # 0 /\ IsNone(env_host.shell)
    /\ hw_host.lspci.rc # 0 /\ IsNone(hw_host.freq)
    /\ log_output.rc # 0
    /\ Len(all_data.processes.memory) > 0
    /\ Len(all_data.hardware.disks) > 0

\* C2: a failing external utility never raises out of its collector and
\* never drops the field: with the display utility failing or printing
\* nothing, collect_environment_info returns with resolution = "Unknown";
\* with the log utility exiting non-zero, analyze_logs returns exactly
\* {success: 0, warnings: 0, errors: 0}.
C2_FailingUtilityDegrades ==
    /\ error.at \notin {"environment", "logs"}
    /\ (Sets(env_host) /\ UtilityFailed(env_host.xrandr)) =>
            /\ "resolution" \in DOMAIN environment_info
            /\ environment_info.resolution = Unknown
    /\ (Sets(log_output) /\ log_output.rc # 0) => logs_info = NoCounts

\* The display utility printed nothing, the log utility failed, and both
\* collectors returned.
C2_Witness ==
    /\ pc = "aggregate"
    /\ env_host.xrandr.rc = 0 /\ Strip(env_host.xrandr.out) = << >>
    /\ log_output.rc # 0
    /\ environment_info.resolution = Unknown
    /\ logs_info = NoCounts

ReportOnDisk ==
    /\ report_html # << >>
    /\ filename \in DOMAIN files
    /\ files[filename] = report_html

\* C6 as stated: a run ends either with the report written and then one
\* confirmation line, or abruptly with no report file produced and no
\* confirmation line.
C6_TwoOutcomes ==
    /\ stdout # << >> => ReportOnDisk
    /\ pc = "done" => (Len(stdout) = 1 /\ ReportOnDisk)
    /\ pc = "failed" => (stdout = << >> /\ DOMAIN files = {})

\* C6 as amended: success is the report written and then exactly one
\* confirmation line; a failure prints no confirmation line; the line is
\* never printed before or without the file write; a failure in a collector,
\* in rendering or in opening the file leaves no file on disk, and a file
\* left by a failed run comes from a failure while writing the opened file
\* (a truncated report) or in the final print (the complete report).
C6_OutcomesWithWriteFailure ==
    /\ Len(stdout) <= 1
    /\ stdout # << >> => ReportOnDisk
    /\ pc = "done" => (Len(stdout) = 1 /\ ReportOnDisk)
    /\ pc = "failed" => stdout = << >>
    /\ (pc = "failed" /\ error.at \notin {"save_report", "print"}) => DOMAIN files = {}
    /\ (pc = "failed" /\ error.type = "PermissionError") => DOMAIN files = {}
    /\ (pc = "failed" /\ error.at = "save_report" /\ error.type = "OSError") =>
            (filename \in DOMAIN files /\ files[filename] # report_html)
    /\ (pc = "failed" /\ error.at = "print") => ReportOnDisk

\* A successful run: the report on disk and one confirmation line.
C6_Witness == pc = "done" /\ ReportOnDisk /\ Len(stdout) = 1

\* C8: collect_general_info has no error path: no host state makes it fail.
C8_GeneralNoErrorPath == error.at # "general"

(***************************************************************************)
(* collect_top_processes up to its cpu ranking (specification SpecCpu).    *)
(***************************************************************************)
\* lines 88-92
PrimeStep ==
    /\ pc = "prime"
    /\ \E outcomes \in SeqsUpTo(PrimeOutcomes, MainMax) :
        LET r == PrimingPass(outcomes)
        IN  IF r.exc # ""
            THEN Fail("processes", r.exc)
            ELSE pc' = "rank_cpu" /\ UNCHANGED error
    /\ UNCHANGED << clockVars, procVars, hostVars, log_output, mainVars, docVars, ioVars >>

\* lines 84, 94-107
RankCpuStep ==
    /\ pc = "rank_cpu"
    /\ \E table \in CpuTables(CpuPercents, MaxProcs), cores \in CoreCounts :
        LET r == RankCpu(table, cores)
        IN  /\ cpu_table' = table
            /\ logical_cores' = cores
            /\ IF r.exc # ""
               THEN Fail("processes", r.exc) /\ UNCHANGED info
               ELSE /\ info' = ("cpu" :> r.val) @@ info
                    /\ pc' = "rank_memory"
                    /\ UNCHANGED error
    /\ UNCHANGED << clockVars, memory_table, hostVars, log_output, mainVars, docVars, ioVars >>

InitCpu ==
    /\ pc = "prime" /\ error = NoError /\ logical_cores = 1
    /\ ClockInit /\ ProcInit /\ HostInit /\ LocalsInit /\ DocInit /\ IoInit

NextCpu == PrimeStep \/ RankCpuStep

SpecCpu == InitCpu /\ [][NextCpu]_vars

Pids(table) == { table[i].pid : i \in DOMAIN table }

RowOf(table, pid) == CHOOSE i \in DOMAIN table : table[i].pid = pid

Max(a, b) == IF a >= b THEN a ELSE b

\* C3: the cpu ranking returned has at most 5 entries, leaves out exactly
\* the one entry that is first in the raw descending ranking, holds the
\* next entries in descending order, and reports for each its raw percent
\* divided by the logical thread count.
C3_CpuRanking ==
    pc = "rank_memory" =>
        LET r    == info.cpu
            n    == Len(cpu_table)
            raw(pid) == cpu_table[RowOf(cpu_table, pid)].cpu_percent
            in   == { r[i].pid : i \in DOMAIN r }
            out  == Pids(cpu_table) \ in
        IN  /\ Len(r) <= 5
            /\ Len(r) = Max(0, Min(n, 6) - 1)
            /\ in \subseteq Pids(cpu_table)
            /\ Cardinality(in) = Len(r)
            /\ n >= 1 =>
                \E top \in out :
                    /\ \A q \in Pids(cpu_table) \ {top} : Val(raw(q)) <= Val(raw(top))
                    /\ \A q \in Pids(cpu_table) \ {top} :
                            Val(raw(q)) = Val(raw(top)) => top < q
                    /\ \A e \in out \ {top}, q \in in : Val(raw(e)) <= Val(raw(q))
            /\ \A i, j \in DOMAIN r : i < j => Val(raw(r[i].pid)) >= Val(raw(r[j].pid))
            /\ \A i \in DOMAIN r :
                    /\ r[i].cpu.den > 0
                    /\ r[i].cpu.num * logical_cores = Val(raw(r[i].pid)) * r[i].cpu.den

\* Seven processes on four threads: five are ranked, with different values.
C3_Witness ==
    /\ pc = "rank_memory"
    /\ Len(cpu_table) = 7 /\ logical_cores = 4
    /\ Len(info.cpu) = 5
    /\ info.cpu[1].cpu # info.cpu[5].cpu
    /\ cpu_table[1].cpu_percent = Some(0)

\* C5: a process that exits or denies access during the enumeration is
\* skipped: no error of collect_top_processes reaches the caller.
C5_NoErrorSurfaces == error.at # "processes"

(***************************************************************************)
(* The memory ranking of collect_top_processes (specification SpecMem).    *)
(***************************************************************************)
\* lines 109-124
RankMemoryStep ==
    /\ pc = "rank_memory"
    /\ \E table \in MemoryTables(MemoryPercents, MaxProcs) :
        LET r == RankMemory(table)
        IN  /\ memory_table' = table
            /\ IF r.exc # ""
               THEN Fail("processes", r.exc) /\ UNCHANGED info
               ELSE /\ info' = ("memory" :> r.val) @@ info
                    /\ pc' = "returned"
                    /\ UNCHANGED error
    /\ UNCHANGED << clockVars, logical_cores, cpu_table, hostVars, log_output,
                    mainVars, docVars, ioVars >>

InitMem ==
    /\ pc = "rank_memory" /\ error = NoError /\ logical_cores = 1
    /\ ClockInit /\ ProcInit /\ HostInit /\ LocalsInit /\ DocInit /\ IoInit

NextMem == RankMemoryStep

SpecMem == InitMem /\ [][NextMem]_vars

\* C4: the memory ranking returned has min(5, number of processes) entries,
\* is sorted non-increasing, holds the processes with the largest memory
\* percent of the table, each rounded to two decimals, and no entry exceeds
\* 100 percent.
C4_MemoryRanking ==
    pc = "returned" =>
        LET r    == info.memory
            n    == Len(memory_table)
            raw(pid) == memory_table[RowOf(memory_table, pid)].memory_percent
            in   == { r[i].pid : i \in DOMAIN r }
            out  == Pids(memory_table) \ in
        IN  /\ Len(r) <= 5
            /\ Len(r) = Min(5, n)
            /\ in \subseteq Pids(memory_table)
            /\ Cardinality(in) = Len(r)
            /\ \A i, j \in DOMAIN r : i < j => r[i].memory >= r[j].memory
            /\ \A i, j \in DOMAIN r : i < j => Val(raw(r[i].pid)) >= Val(raw(r[j].pid))
            /\ \A e \in out, q \in in : Val(raw(e)) <= Val(raw(q))
            /\ \A i \in DOMAIN r :
                    /\ r[i].memory <= 100 * 100
                    /\ 10 * r[i].memory - Val(raw(r[i].pid)) <= 5
                    /\ Val(raw(r[i].pid)) - 10 * r[i].memory <= 5

\* Seven processes: five are ranked, with different values, one at 100 %.
C4_Witness ==
    /\ pc = "returned"
    /\ Len(memory_table) = 7
    /\ Len(info.memory) = 5
    /\ info.memory[1].memory = 100 * 100
    /\ info.memory[5].memory < info.memory[4].memory

(***************************************************************************)
(* analyze_logs on a journal (specification SpecLogs).                     *)
(***************************************************************************)
AnalyzeLogsStep ==
    /\ pc = "logs"
    /\ \E u \in JournalOutcomes(LogLines, MaxLines) :
        LET r == AnalyzeLogs(u)
        IN  /\ log_output' = u
            /\ IF r.exc # ""
               THEN Fail("logs", r.exc) /\ UNCHANGED logs_info
               ELSE logs_info' = r.val /\ pc' = "returned" /\ UNCHANGED error
    /\ UNCHANGED << clockVars, procVars, hostVars, general_info, environment_info,
                    hardware_info, processes_info, docVars, ioVars >>

InitLogs ==
    /\ pc = "logs" /\ error = NoError /\ logical_cores = 1
    /\ ClockInit /\ ProcInit /\ HostInit /\ LocalsInit /\ DocInit /\ IoInit

NextLogs == AnalyzeLogsStep

SpecLogs == InitLogs /\ [][NextLogs]_vars

\* The line has a word that is the marker in some letter case.
HasAnyCase(line, marker) == \E i \in DOMAIN line : Lower(line[i]) = marker

\* The line has the marker exactly as written.
HasExact(line, marker) == \E i \in DOMAIN line : line[i] = marker

LinesWhere(lines, keep) == Cardinality({ i \in DOMAIN lines : keep[i] })

\* C9 as stated: all three predicates match case-insensitively; success
\* counts the lines with the system-manager marker and the "Started"
\* marker in any letter case.
C9_AllCaseInsensitive ==
    (pc = "returned" /\ log_output.rc = 0) =>
        LET lines == log_output.out
        IN  /\ logs_info.success = LinesWhere(lines,
                    [i \in DOMAIN lines |-> HasAnyCase(lines[i], "systemd")
                                            /\ HasAnyCase(lines[i], "started")])
            /\ logs_info.warnings = LinesWhere(lines,
                    [i \in DOMAIN lines |-> HasAnyCase(lines[i], "warning")])
            /\ logs_info.errors = LinesWhere(lines,
                    [i \in DOMAIN lines |-> HasAnyCase(lines[i], "error")])

\* C9 as amended: three independent, non-exclusive predicates; "systemd",
\* "warning" and "error" match in any letter case, "Started" only as
\* written (capital S); a line is counted in every bucket it matches, and
\* each count lies between 0 and the number of lines.
C9_StartedCaseSensitive ==
    (pc = "returned" /\ log_output.rc = 0) =>
        LET lines == log_output.out
        IN  /\ logs_info.success = LinesWhere(lines,
                    [i \in DOMAIN lines |-> HasAnyCase(lines[i], "systemd")
                                            /\ HasExact(lines[i], "Started")])
            /\ logs_info.warnings = LinesWhere(lines,
                    [i \in DOMAIN lines |-> HasAnyCase(lines[i], "warning")])
            /\ logs_info.errors = LinesWhere(lines,
                    [i \in DOMAIN lines |-> HasAnyCase(lines[i], "error")])
            /\ \A k \in LogsKeys : logs_info[k] \in 0..Len(lines)

\* A journal with a line in all three buckets and a "systemd ... started"
\* line in lower case, which is no success.
C9_Witness ==
    /\ pc = "returned" /\ log_output.rc = 0
    /\ Len(log_output.out) = 2
    /\ log_output.out[1] = <<"systemd", "Started", "WARNING", "error">>
    /\ log_output.out[2] = <<"systemd", "started", "unit">>
    /\ logs_info = [success |-> 1, warnings |-> 1, errors |-> 1]

(***************************************************************************)
(* generate_html_report on a synthetic document (specification SpecRender).*)
(***************************************************************************)
SampleDisks ==
    { [device |-> Text("/dev/sda1"), mountpoint |-> Text("/"),
       fstype |-> Text("ext4"), free_space |-> GB(2 * GiB)],
      [device |-> Text("/dev/sdb1"), mountpoint |-> Text("/mnt"),
       fstype |-> Text("vfat"), free_space |-> GB(GiB + GiB \div 3)] }

SampleCpuEntries ==
    { [pid |-> 7, name |-> Text("bash"), cpu |-> Quotient(150, 4)],
      [pid |-> 42, name |-> Text("init"), cpu |-> Quotient(50, 1)] }

SampleMemoryEntries ==
    { [pid |-> 7, name |-> Text("bash"), memory |-> Round2(1235)],
      [pid |-> 310, name |-> Text("Xorg"), memory |-> Round2(100000)] }

Docs ==
    { [ general     |-> CollectGeneralInfo([login |-> Some("alice"), euid |-> Some(0)], 0, 0).val,
        environment |-> [desktop_env |-> Text("GNOME"), resolution |-> Unknown,
                         shell |-> Text("/bin/bash")],
        hardware    |-> [ cpu   |-> [name |-> Text("x86_64"), frequency |-> Unknown,
                                     cores |-> 2, threads |-> 4],
                          ram   |-> [total |-> GB(16 * GiB), used |-> GB(5 * GiB),
                                     swap_total |-> GB(0), swap_used |-> GB(0)],
                          disks |-> disks,
                          gpu   |-> NoneText ],
        processes   |-> [cpu |-> cpu, memory |-> memory],
        logs        |-> [success |-> 3, warnings |-> 1, errors |-> 0] ] :
      disks \in SeqsUpTo(SampleDisks, MaxItems),
      cpu \in SeqsUpTo(SampleCpuEntries, MaxItems),
      memory \in SeqsUpTo(SampleMemoryEntries, MaxItems) }

InitRender ==
    /\ pc = "render" /\ error = NoError /\ logical_cores = 1
    /\ all_data \in Docs /\ doc_in = all_data /\ report_html = << >>
    /\ ClockInit /\ ProcInit /\ HostInit /\ LocalsInit /\ IoInit

NextRender == Render

SpecRender == InitRender /\ [][NextRender]_vars

\* Reading the report back: the places of a token, in order.
Places(html, token) ==
    LET at == { i \in DOMAIN html : html[i] = token }
    IN  [k \in 1..Cardinality(at) |->
            CHOOSE i \in at : Cardinality({ j \in at : j < i }) = k - 1]

\* The pieces strictly between the k-th opening and the k-th closing token.
Between(html, open, close, k) ==
    SubSeq(html, Places(html, open)[k] + 1, Places(html, close)[k] - 1)

Count(html, token) == Cardinality({ i \in DOMAIN html : html[i] = token })

\* The k-th table of the report.
TableOf(html, k) == Between(html, "<table>", "</table>", k)

\* The rows of a table, each the sequence of the texts of its cells.
RowsOf(table) ==
    [r \in 1..Count(table, "<tr>") |->
        LET row == Between(table, "<tr>", "</tr>", r)
        IN  [c \in 1..Count(row, "<td>") |-> Between(row, "<td>", "</td>", c)]]

\* The data rows: those made of <td> cells (the header row has none).
DataRowsOf(table) == SelectSeq(RowsOf(table), LAMBDA row : row # << >>)

WellNested(html) ==
    /\ Count(html, "<table>") = Count(html, "</table>")
    /\ Count(html, "<tr>") = Count(html, "</tr>")
    /\ Count(html, "<td>") = Count(html, "</td>")
    /\ Count(html, "<th>") = Count(html, "</th>")

\* C10: the disk, top-cpu and top-memory tables of the report hold exactly
\* one data row per item of the document's list, in list order, each row
\* with the item's values as they are (the percent columns with a "%"
\* behind); an empty list gives a table with its header row only; and the
\* document handed in is the same afterwards.
C10_OneRowPerItem ==
    pc = "save_open" =>
        LET disks  == doc_in.hardware.disks
            cpu    == doc_in.processes.cpu
            memory == doc_in.processes.memory
        IN  /\ WellNested(report_html)
            /\ Count(report_html, "<table>") = 7
            /\ DataRowsOf(TableOf(report_html, 4)) =
                 [i \in DOMAIN disks |-> << disks[i].device, disks[i].mountpoint,
                                            disks[i].fstype, disks[i].free_space >>]
            /\ DataRowsOf(TableOf(report_html, 5)) =
                 [i \in DOMAIN cpu |-> << DecStr(cpu[i].pid), cpu[i].name,
                                          QuotientStr(cpu[i].cpu) \o <<"%">> >>]
            /\ DataRowsOf(TableOf(report_html, 6)) =
                 [i \in DOMAIN memory |-> << DecStr(memory[i].pid), memory[i].name,
                                             HundredthsStr(memory[i].memory) \o <<"%">> >>]
            /\ Len(RowsOf(TableOf(report_html, 4))) = 1 + Len(disks)
            /\ Len(RowsOf(TableOf(report_html, 5))) = 1 + Len(cpu)
            /\ Len(RowsOf(TableOf(report_html, 6))) = 1 + Len(memory)
            /\ all_data = doc_in

\* One disk, two different cpu entries, no memory entry.
C10_Witness ==
    /\ pc = "save_open"
    /\ Len(doc_in.hardware.disks) = 1
    /\ Len(doc_in.processes.cpu) = 2
    /\ doc_in.processes.cpu[1] # doc_in.processes.cpu[2]
    /\ doc_in.processes.memory = << >>
    /\ Len(RowsOf(TableOf(report_html, 6))) = 1
    /\ Len(DataRowsOf(TableOf(report_html, 5))) = 2

(***************************************************************************)
(* Successive runs writing their reports (specification SpecRuns).  Real   *)
(* time only moves forward; the local wall clock can be set back one hour  *)
(* (the end of daylight saving time, an adjustment of the clock).          *)
(***************************************************************************)
Hour == 3600 * TicksPerSec

Tick ==
    /\ \E d \in {1, Hour} :
        /\ d = 1 => (now % Hour) < MaxTicks
        /\ d = Hour => now < Hour
        /\ now' = now + d
    /\ UNCHANGED << pc, error, utcoff, procVars, hostVars, log_output, mainVars,
                    docVars, ioVars >>

ClockSetBack ==
    /\ utcoff = 0
    /\ utcoff' = -3600
    /\ UNCHANGED << pc, error, now, procVars, hostVars, log_output, mainVars,
                    docVars, ioVars >>

\* The program is started again in the same working directory.
NextRun ==
    /\ pc \in {"print", "done", "failed"}
    /\ run < MaxRuns
    /\ run' = run + 1
    /\ pc' = "save_open" /\ error' = NoError
    /\ filename' = << >> /\ stdout' = << >>
    /\ UNCHANGED << clockVars, procVars, hostVars, log_output, mainVars, docVars,
                    files, written >>

InitRuns ==
    /\ pc = "save_open" /\ error = NoError /\ logical_cores = 1
    /\ all_data = << >> /\ doc_in = << >>
    /\ report_html = <<"<html>", "</html>">>
    /\ ClockInit /\ ProcInit /\ HostInit /\ LocalsInit /\ IoInit

NextRuns == Tick \/ ClockSetBack \/ SaveOpen \/ SaveWrite \/ NextRun

SpecRuns == InitRuns /\ [][NextRuns]_vars

IsDigit(c) == c \in {"0", "1", "2", "3", "4", "5", "6", "7", "8", "9"}

DigitValue(c) == CHOOSE n \in 0..9 : Digit(n) = c

\* The name has the form YYYY-MM-DD HH_MM_SS.html and its time of day is
\* that of the local second.
NameOfLocalSecond(name, sec) ==
    /\ Len(name) = 20
    /\ name[5] = "-" /\ name[8] = "-" /\ name[11] = " "
    /\ name[14] = "_" /\ name[17] = "_" /\ name[20] = ".html"
    /\ \A i \in (1..19) \ {5, 8, 11, 14, 17} : IsDigit(name[i])
    /\ 10 * DigitValue(name[18]) + DigitValue(name[19]) = sec % 60
    /\ 10 * DigitValue(name[15]) + DigitValue(name[16]) = (sec \div 60) % 60
    /\ 10 * DigitValue(name[12]) + DigitValue(name[13]) = (sec \div 3600) % 24

MoreThanOneSecondApart(w1, w2) == w2.at - w1.at > TicksPerSec

SameRealSecond(w1, w2) == EpochSecond(w1.at) = EpochSecond(w2.at)

\* C7 as stated: two writes more than one second apart give two distinct
\* names of the form YYYY-MM-DD HH_MM_SS.html, ordered as the writes; a
\* report is overwritten only by a write within the same second.
C7_DistinctOrderedNames ==
    /\ \A i \in DOMAIN written :
            NameOfLocalSecond(written[i].name, LocalSecond(written[i].at, written[i].off))
    /\ \A i, j \in DOMAIN written : i < j =>
            /\ MoreThanOneSecondApart(written[i], written[j]) =>
                    /\ written[i].name # written[j].name
                    /\ LexLess(written[i].name, written[j].name)
            /\ written[i].name = written[j].name => SameRealSecond(written[i], written[j])

\* C7 as amended: the same, for two writes between which the local wall
\* clock was not set back; a report is overwritten only by a write within
\* the same second or after the local clock was set back.
C7_DistinctOrderedNamesSameClock ==
    /\ \A i \in DOMAIN written :
            NameOfLocalSecond(written[i].name, LocalSecond(written[i].at, written[i].off))
    /\ \A i, j \in DOMAIN written : (i < j /\ written[i].off = written[j].off) =>
            /\ MoreThanOneSecondApart(written[i], written[j]) =>
                    /\ written[i].name # written[j].name
                    /\ LexLess(written[i].name, written[j].name)
            /\ written[i].name = written[j].name => SameRealSecond(written[i], written[j])
    /\ \A i, j \in DOMAIN written : (i < j /\ written[i].name = written[j].name) =>
            SameRealSecond(written[i], written[j]) \/ written[j].off < written[i].off

\* Two runs on the same clock, the first in the last seconds of 2026 and the
\* second, more than one second later, in 2027: save_report has returned
\* twice and two files are on disk.
C7_Witness ==
    /\ Len(written) = 2
    /\ written[1].off = written[2].off
    /\ MoreThanOneSecondApart(written[1], written[2])
    /\ written[1].name[4] = "6" /\ written[2].name[4] = "7"
    /\ Cardinality(DOMAIN files) = 2
    /\ pc = "print"

====
